---- MODULE Spec2Model ----
(***************************************************************************)
(* Model of src/App.py: the Twilio activity report.                        *)
(*                                                                         *)
(* Python strings are modelled as sequences of one-character strings, so   *)
(* that regular-expression search, split, strip and lower are computed     *)
(* character by character.  Python's None is the one-element sequence      *)
(* <<"None">>, which no string can equal (its element is not a character). *)
(***************************************************************************)
EXTENDS Integers, Sequences, FiniteSets, TLC

VARIABLES
    pc,             \* position of the modelled run
    val, res, res2, \* normalize_number: argument, result, result of re-applying
    call,           \* loop variable c of "for c in calls"
    msg,            \* loop variable m of "for m in messages"
    ncalls, nmsgs,  \* number of records of each list already iterated
    report_data,    \* the defaultdict, as a sequence in insertion order
    rows,           \* the report rows
    logged_in, view, start_utc, end_utc, billing_period,  \* st.session_state
    clicked,        \* the button pressed for the current script run, if any
    creds,          \* the texts of the Username and Password inputs
    rerun,          \* st.rerun() was called: the script runs again by itself
    ran,            \* which report the current script run reached
    now             \* the clock read by the current script run (minutes, UTC)

vars == <<pc, val, res, res2, call, msg, ncalls, nmsgs, report_data, rows,
          logged_in, view, start_utc, end_utc, billing_period, clicked, creds,
          rerun, ran, now>>

normVars == <<val, res, res2>>
reportVars == <<call, msg, ncalls, nmsgs, report_data, rows>>
uiVars == <<logged_in, view, start_utc, end_utc, billing_period, clicked, creds,
            rerun, ran, now>>

-----------------------------------------------------------------------------
(* Strings *)

None == <<"None">>

\* Python truthiness of an optional string: None and "" are falsy.
Falsy(v) == v = None \/ v = <<>>

Digits == {"0", "1", "2", "3", "4", "5", "6", "7", "8", "9"}
Whitespace == {" ", "\t", "\n"}

Rep(ch, n) == [i \in 1..n |-> ch]

Min(a, b) == IF a <= b THEN a ELSE b

\* Length of the run of digits of s that starts at position i.
DigitRun(s, i) ==
    IF i > Len(s) \/ s[i] \notin Digits THEN 0
    ELSE LET stops == {j \in i..Len(s) : s[j] \notin Digits}
         IN  IF stops = {} THEN Len(s) - i + 1
             ELSE (CHOOSE j \in stops : \A k \in stops : j <= k) - i

MinDigits == 5
MaxDigits == 15

\* The match of \+?\d{5,15} anchored at position i, or None.
MatchAt(s, i) ==
    IF s[i] = "+"
    THEN IF DigitRun(s, i + 1) >= MinDigits
         THEN SubSeq(s, i, i + Min(DigitRun(s, i + 1), MaxDigits))
         ELSE None
    ELSE IF DigitRun(s, i) >= MinDigits
         THEN SubSeq(s, i, i + Min(DigitRun(s, i), MaxDigits) - 1)
         ELSE None

\* re.search(r'(\+?\d{5,15})', s): the leftmost match, or None.
ReSearch(s) ==
    LET hits == {i \in 1..Len(s) : MatchAt(s, i) # None}
    IN  IF hits = {} THEN None
        ELSE MatchAt(s, CHOOSE i \in hits : \A k \in hits : i <= k)

\* re.sub(r'\s+', '', s)
RECURSIVE StripAllWhitespace(_)
StripAllWhitespace(s) ==
    IF s = <<>> THEN <<>>
    ELSE IF Head(s) \in Whitespace THEN StripAllWhitespace(Tail(s))
    ELSE <<Head(s)>> \o StripAllWhitespace(Tail(s))

normalize_number(v) ==
    IF Falsy(v) THEN None
    ELSE LET mt == ReSearch(v)
         IN  IF mt # None
             THEN (IF mt[1] = "+" THEN mt ELSE <<"+">> \o mt)
             ELSE LET s2 == StripAllWhitespace(v)
                  IN  IF s2 # <<>> THEN s2 ELSE None

-----------------------------------------------------------------------------
(* More string helpers *)

UpperCase == <<"A", "B", "C", "D", "E", "F", "G", "H", "I", "J", "K", "L", "M",
               "N", "O", "P", "Q", "R", "S", "T", "U", "V", "W", "X", "Y", "Z">>
LowerCase == <<"a", "b", "c", "d", "e", "f", "g", "h", "i", "j", "k", "l", "m",
               "n", "o", "p", "q", "r", "s", "t", "u", "v", "w", "x", "y", "z">>

LowerChar(ch) ==
    IF \E i \in 1..Len(UpperCase) : UpperCase[i] = ch
    THEN LowerCase[CHOOSE i \in 1..Len(UpperCase) : UpperCase[i] = ch]
    ELSE ch

\* str.lower()
Lower(s) == [i \in 1..Len(s) |-> LowerChar(s[i])]

\* (x or "")
OrEmpty(v) == IF Falsy(v) THEN <<>> ELSE v

\* sub in s
Contains(s, sub) ==
    \E i \in 1..(Len(s) - Len(sub) + 1) : SubSeq(s, i, i + Len(sub) - 1) = sub

\* s.startswith(p)
StartsWith(s, p) == Len(s) >= Len(p) /\ SubSeq(s, 1, Len(p)) = p

\* str.strip()
Strip(s) ==
    LET keep == {i \in 1..Len(s) : s[i] \notin Whitespace}
    IN  IF keep = {} THEN <<>>
        ELSE SubSeq(s, CHOOSE i \in keep : \A k \in keep : i <= k,
                       CHOOSE i \in keep : \A k \in keep : i >= k)

DigitVal(ch) == CHOOSE n \in 0..9 : <<"0", "1", "2", "3", "4", "5", "6", "7", "8", "9">>[n + 1] = ch

RECURSIVE DecValue(_)
DecValue(s) ==
    IF s = <<>> THEN 0
    ELSE 10 * DecValue(SubSeq(s, 1, Len(s) - 1)) + DigitVal(s[Len(s)])

\* int(s) for a string s: surrounding whitespace and one sign are accepted,
\* anything else than decimal digits raises ValueError.
PyInt(s) ==
    LET t == Strip(s)
        signed == t # <<>> /\ t[1] \in {"+", "-"}
        body == IF signed THEN Tail(t) ELSE t
    IN  IF body # <<>> /\ \A i \in 1..Len(body) : body[i] \in Digits
        THEN [raised |-> FALSE,
              value |-> IF signed /\ t[1] = "-" THEN 0 - DecValue(body) ELSE DecValue(body)]
        ELSE [raised |-> TRUE, value |-> 0]

-----------------------------------------------------------------------------
(* Configuration *)

NumWarren  == <<"+", "1", "3", "6", "1", "3", "3", "3", "2", "0", "9", "3">>
NumSwapnilB == <<"+", "1", "2", "1", "0", "9", "3", "4", "1", "8", "1", "1">>
NumRoshan  == <<"+", "1", "4", "6", "9", "3", "7", "8", "9", "4", "4", "6">>
NumSanket  == <<"+", "1", "2", "1", "0", "8", "7", "9", "6", "9", "9", "0">>
NumSwapnilG == <<"+", "1", "2", "1", "0", "9", "3", "4", "3", "9", "9", "3">>
NumBilal   == <<"+", "1", "2", "1", "0", "3", "6", "1", "1", "2", "3", "5">>

\* NAME_MAP as a sequence of <<number, name>> items
NAME_MAP ==
    << <<NumWarren, "Warren Kadd">>, <<NumSwapnilB, "Swapnil B">>,
       <<NumRoshan, "Roshan Y">>, <<NumSanket, "Sanket Sir">>,
       <<NumSwapnilG, "Swapnil G">>, <<NumBilal, "Bilal K">> >>

\* The keys of NORMALIZED_NAME_MAP
NORMALIZED_NAME_MAP ==
    {normalize_number(NAME_MAP[i][1]) : i \in 1..Len(NAME_MAP)} \ {None}

\* NORMALIZED_NAME_MAP.get(num, "Unknown"); a later item of NAME_MAP wins.
NameOf(num) ==
    LET hits == {i \in 1..Len(NAME_MAP) : normalize_number(NAME_MAP[i][1]) = num}
    IN  IF hits = {} THEN "Unknown"
        ELSE NAME_MAP[CHOOSE i \in hits : \A k \in hits : i >= k][2]

-----------------------------------------------------------------------------
(* The accumulators: report_data is the defaultdict, kept as the sequence  *)
(* of its values in insertion order, each carrying its key as "num".       *)

Keys(rd) == {rd[i].num : i \in 1..Len(rd)}

IndexOf(rd, num) == CHOOSE i \in 1..Len(rd) : rd[i].num = num

NewStats(num) ==
    [num |-> num,
     inbound_calls |-> 0, inbound_duration |-> 0,
     outbound_calls |-> 0, outbound_duration |-> 0,
     sms |-> 0, campaigns |-> <<>>, other_sms |-> <<>>]

\* report_data[num]: a missing key is inserted with the default value.
Touch(rd, num) == IF num \in Keys(rd) THEN rd ELSE Append(rd, NewStats(num))

AddOutboundCall(rd, num, duration) ==
    LET rd2 == Touch(rd, num)
        i == IndexOf(rd2, num)
    IN  [rd2 EXCEPT ![i].outbound_calls = @ + 1,
                    ![i].outbound_duration = @ + duration]

AddInboundCall(rd, num, duration) ==
    LET rd2 == Touch(rd, num)
        i == IndexOf(rd2, num)
    IN  [rd2 EXCEPT ![i].inbound_calls = @ + 1,
                    ![i].inbound_duration = @ + duration]

StrCompleted == <<"c", "o", "m", "p", "l", "e", "t", "e", "d">>
StrOutbound == <<"o", "u", "t", "b", "o", "u", "n", "d">>
StrInbound == <<"i", "n", "b", "o", "u", "n", "d">>

\* int(getattr(c, "duration", 0) or 0)
DurationOf(c) ==
    IF Falsy(c.duration) THEN [raised |-> FALSE, value |-> 0] ELSE PyInt(c.duration)

\* A call is skipped by one of the two "continue" statements.
CallSkipped(c) ==
    \/ c.parent_call_sid # None
    \/ Lower(OrEmpty(c.status)) # StrCompleted

\* A variant with "if" where the code has "elif": both ends are counted.
CallLoopBody_both(rd, c) ==
    IF CallSkipped(c) THEN [raised |-> FALSE, rd |-> rd]
    ELSE LET d == DurationOf(c)
             from_num == normalize_number(c.from_)
             to_num == normalize_number(c.to)
             rd1 == IF from_num \in NORMALIZED_NAME_MAP
                    THEN AddOutboundCall(rd, from_num, d.value) ELSE rd
             rd2 == IF to_num \in NORMALIZED_NAME_MAP
                    THEN AddInboundCall(rd1, to_num, d.value) ELSE rd1
         IN  IF d.raised THEN [raised |-> TRUE, rd |-> rd]
             ELSE [raised |-> FALSE, rd |-> rd2]

\* One iteration of "for c in calls": the accumulators after it, or raised.
CallLoopBody(rd, c) ==
    IF CallSkipped(c) THEN [raised |-> FALSE, rd |-> rd]
    ELSE LET d == DurationOf(c)
             from_num == normalize_number(c.from_)
             to_num == normalize_number(c.to)
         IN  IF d.raised THEN [raised |-> TRUE, rd |-> rd]
             ELSE IF from_num \in NORMALIZED_NAME_MAP
                  THEN [raised |-> FALSE, rd |-> AddOutboundCall(rd, from_num, d.value)]
             ELSE IF to_num \in NORMALIZED_NAME_MAP
                  THEN [raised |-> FALSE, rd |-> AddInboundCall(rd, to_num, d.value)]
             ELSE [raised |-> FALSE, rd |-> rd]

-----------------------------------------------------------------------------
(* normalize_number as a pure function over bounded inputs *)

MaxLen == 6
MaxRun == 16

NormChars == {"+", "1", " ", "a"}

ShortStrings == UNION {[1..k -> NormChars] : k \in 0..MaxLen}

\* Long digit runs, around the 15-digit cap of the pattern.
LongStrings ==
    {pre \o Rep("7", n) \o suf :
        pre \in {<<>>, <<"+">>, <<"a">>},
        n \in (MaxDigits - 1)..MaxRun,
        suf \in {<<>>, <<" ">>, <<"1">>}}

NormInputs == ShortStrings \cup LongStrings \cup {None}

Unset == <<"Unset">>

\* A key of st.session_state that holds a time: absent, None, or a time in
\* minutes (UTC).
Absent == [kind |-> "absent"]
NoTime == [kind |-> "none"]
Time(t) == [kind |-> "time", t |-> t]

\* A fresh browser session: st.session_state is empty.
InitSession ==
    /\ logged_in = FALSE /\ view = "unset" /\ start_utc = Absent /\ end_utc = Absent
    /\ billing_period = "unset" /\ clicked = "none" /\ creds = <<"", "">>
    /\ rerun = TRUE /\ ran = "none" /\ now = 0

InitOther ==
    /\ call = None /\ msg = None /\ ncalls = 0 /\ nmsgs = 0
    /\ report_data = <<>> /\ rows = <<>>
    /\ InitSession

InitNorm ==
    /\ pc = "start"
    /\ val \in NormInputs
    /\ res = Unset /\ res2 = Unset
    /\ InitOther

Normalize ==
    /\ pc = "start"
    /\ res' = normalize_number(val)
    /\ pc' = "normalized"
    /\ UNCHANGED <<val, res2, reportVars, uiVars>>

Renormalize ==
    /\ pc = "normalized"
    /\ res2' = normalize_number(res)
    /\ pc' = "renormalized"
    /\ UNCHANGED <<val, res, reportVars, uiVars>>

NextNorm == Normalize \/ Renormalize

SpecNorm == InitNorm /\ [][NextNorm]_vars

-----------------------------------------------------------------------------
(* The message loop of run_report *)

StrComma == ","
MinTemplateLen == 30

\* A variant that accepts a template of exactly 30 characters.
extract_template_ge(body) ==
    IF Falsy(body) THEN None
    ELSE LET commas == {i \in 1..Len(body) : body[i] = StrComma}
         IN  IF commas = {} THEN None
             ELSE LET first == CHOOSE i \in commas : \A k \in commas : i <= k
                      template == Strip(SubSeq(body, first + 1, Len(body)))
                  IN  IF Len(template) >= MinTemplateLen THEN template ELSE None

\* extract_template(body): the text after the first comma, stripped, when it
\* is longer than 30 characters; None otherwise.
extract_template(body) ==
    IF Falsy(body) THEN None
    ELSE LET commas == {i \in 1..Len(body) : body[i] = StrComma}
         IN  IF commas = {} THEN None
             ELSE LET first == CHOOSE i \in commas : \A k \in commas : i <= k
                      template == Strip(SubSeq(body, first + 1, Len(body)))
                  IN  IF Len(template) > MinTemplateLen THEN template ELSE None

\* "x or y" on optional strings
PyOr(x, y) == IF Falsy(x) THEN y ELSE x

\* A variant that ignores the direction.
our_number_from_message_nodir(m) == PyOr(m.from_, m.to)

our_number_from_message(m) ==
    LET direction == Lower(OrEmpty(m.direction))
    IN  IF StartsWith(direction, StrOutbound) THEN m.from_
        ELSE IF StartsWith(direction, StrInbound) THEN m.to
        ELSE PyOr(m.from_, m.to)

\* campaigns[template] += 1 on a defaultdict(int)
BumpCampaign(campaigns, template) ==
    IF template \in DOMAIN campaigns
    THEN [campaigns EXCEPT ![template] = @ + 1]
    ELSE [t \in (DOMAIN campaigns) \cup {template} |->
            IF t = template THEN 1 ELSE campaigns[t]]

\* A variant without the "if not is_campaign" guard.
ClassifyMessage_both(stats, m) ==
    LET direction == Lower(OrEmpty(m.direction))
        outbound == Contains(direction, StrOutbound)
        template == IF outbound THEN extract_template(m.body) ELSE None
        entry == [direction |-> IF outbound THEN "outbound" ELSE "inbound",
                  contact |-> IF outbound THEN m.to ELSE m.from_,
                  body |-> m.body]
    IN  IF outbound /\ template # None
        THEN [stats EXCEPT !.campaigns = BumpCampaign(@, template),
                           !.other_sms = Append(@, entry)]
        ELSE [stats EXCEPT !.other_sms = Append(@, entry)]

\* The classification of an attributed message (lines 208-216): the
\* accumulator of num after the campaign counter or the other_sms list took it.
ClassifyMessage(stats, m) ==
    LET direction == Lower(OrEmpty(m.direction))
        outbound == Contains(direction, StrOutbound)
        template == IF outbound THEN extract_template(m.body) ELSE None
    IN  IF outbound /\ template # None
        THEN [stats EXCEPT !.campaigns = BumpCampaign(@, template)]
        ELSE [stats EXCEPT !.other_sms =
                Append(@, [direction |-> IF outbound THEN "outbound" ELSE "inbound",
                           contact |-> IF outbound THEN m.to ELSE m.from_,
                           body |-> m.body])]

\* One iteration of "for m in messages".
MessageLoopBody(rd, m) ==
    LET num == normalize_number(our_number_from_message(m))
    IN  IF Falsy(num) \/ num \notin NORMALIZED_NAME_MAP THEN rd
        ELSE LET rd2 == Touch(rd, num)
                 i == IndexOf(rd2, num)
                 counted == [rd2[i] EXCEPT !.sms = @ + 1]
             IN  [rd2 EXCEPT ![i] = ClassifyMessage(counted, m)]

-----------------------------------------------------------------------------
(* The report rows *)

\* round(seconds / 60, 1) in tenths of a minute, ties to even.  Python rounds
\* the float seconds/60; the two agree wherever seconds/60 is exactly
\* representable at a tie, which holds for every multiple of 15 seconds.
MinsTenths(seconds) ==
    LET q == seconds \div 6
        r == seconds % 6
    IN  IF r < 3 THEN q
        ELSE IF r > 3 THEN q + 1
        ELSE IF q % 2 = 0 THEN q ELSE q + 1

RowOf(stats) ==
    [Name |-> NameOf(stats.num), Number |-> stats.num,
     InboundCalls |-> stats.inbound_calls,
     InboundMins |-> MinsTenths(stats.inbound_duration),
     OutboundCalls |-> stats.outbound_calls,
     OutboundMins |-> MinsTenths(stats.outbound_duration),
     SMS |-> stats.sms,
     TotalActivity |-> stats.inbound_calls + stats.outbound_calls + stats.sms]

\* A variant that puts r in front of the rows of equal Total Activity.
InsertRow_unstable(sorted, r) ==
    LET before == {i \in 1..Len(sorted) : sorted[i].TotalActivity <= r.TotalActivity}
        at == IF before = {} THEN Len(sorted) + 1
              ELSE CHOOSE i \in before : \A k \in before : i <= k
    IN  SubSeq(sorted, 1, at - 1) \o <<r>> \o SubSeq(sorted, at, Len(sorted))

\* Insert r behind every row whose Total Activity is at least its own.
InsertRow(sorted, r) ==
    LET before == {i \in 1..Len(sorted) : sorted[i].TotalActivity < r.TotalActivity}
        at == IF before = {} THEN Len(sorted) + 1
              ELSE CHOOSE i \in before : \A k \in before : i <= k
    IN  SubSeq(sorted, 1, at - 1) \o <<r>> \o SubSeq(sorted, at, Len(sorted))

\* sorted(rows, key=Total Activity, reverse=True): a stable sort.
RECURSIVE SortRows(_)
SortRows(rs) ==
    IF rs = <<>> THEN <<>>
    ELSE InsertRow(SortRows(SubSeq(rs, 1, Len(rs) - 1)), rs[Len(rs)])

\* Lines 217-228: one row per accumulator, then the sort.
BuildRowsOf(rd) == SortRows([i \in 1..Len(rd) |-> RowOf(rd[i])])

-----------------------------------------------------------------------------
(* run_report as a state machine: the two loops, then the rows *)

MaxCalls == 1
MaxMsgs == 2

InitReport ==
    /\ pc = "calls"
    /\ call = None /\ msg = None /\ ncalls = 0 /\ nmsgs = 0
    /\ report_data = <<>> /\ rows = <<>>
    /\ val = None /\ res = Unset /\ res2 = Unset
    /\ logged_in = TRUE /\ view = "activity"
    /\ start_utc = Time(0) /\ end_utc = Time(0)
    /\ billing_period = "unset" /\ clicked = "none" /\ creds = <<"", "">>
    /\ rerun = FALSE /\ ran = "activity" /\ now = 0

\* The loop "for c in calls" takes the next call c of the list.
ProcessCall(c) ==
    /\ pc = "calls"
    /\ ncalls < MaxCalls
    /\ call' = c
    /\ ncalls' = ncalls + 1
    /\ LET out == CallLoopBody(report_data, c)
       IN  /\ report_data' = out.rd
           /\ pc' = IF out.raised THEN "crashed" ELSE "calls"
    /\ UNCHANGED <<msg, nmsgs, rows, normVars, uiVars>>

\* The list of calls is exhausted.
EndCalls ==
    /\ pc = "calls"
    /\ pc' = "messages"
    /\ UNCHANGED <<reportVars, normVars, uiVars>>

\* The loop "for m in messages" takes the next message m of the list.
ProcessMessage(m) ==
    /\ pc = "messages"
    /\ nmsgs < MaxMsgs
    /\ msg' = m
    /\ nmsgs' = nmsgs + 1
    /\ report_data' = MessageLoopBody(report_data, m)
    /\ UNCHANGED <<pc, call, ncalls, rows, normVars, uiVars>>

\* The list of messages is exhausted: the rows are built and sorted.
BuildRows ==
    /\ pc = "messages"
    /\ rows' = BuildRowsOf(report_data)
    /\ pc' = "done"
    /\ UNCHANGED <<call, msg, ncalls, nmsgs, report_data, normVars, uiVars>>

-----------------------------------------------------------------------------
(* The records the Twilio lists may hold *)

AddrTracked == NumWarren
\* the number of "Swapnil B" as a bare digit string
AddrTrackedRaw == <<"1", "2", "1", "0", "9", "3", "4", "1", "8", "1", "1">>
AddrUntracked == <<"+", "1", "5", "5", "5", "7", "6", "5", "4", "3", "2", "1">>
Addrs == {AddrTracked, AddrTrackedRaw, AddrUntracked, None}

StrCompletedCap == <<"C", "o", "m", "p", "l", "e", "t", "e", "d">>
StrBusy == <<"b", "u", "s", "y">>
StrOutboundDial == <<"o", "u", "t", "b", "o", "u", "n", "d", "-", "d", "i", "a", "l">>
StrOutboundApi == <<"o", "u", "t", "b", "o", "u", "n", "d", "-", "a", "p", "i">>
StrOutboundReplyCap == <<"O", "u", "t", "b", "o", "u", "n", "d", "-", "R", "e", "p", "l", "y">>
SidParent == <<"C", "A", "1">>
Dur45 == <<"4", "5">>
DurMalformed == <<"a", "b", "c">>

CallDirections == {StrInbound, StrOutboundDial, None}

\* How many of parent_call_sid, status and duration differ from a plain
\* completed top-level call of 45 seconds.  The lists hold the calls that
\* differ in at most one of them, between two different addresses.
Deviations(c) ==
    (IF c.parent_call_sid # None THEN 1 ELSE 0)
    + (IF c.status # StrCompleted THEN 1 ELSE 0)
    + (IF c.duration # Dur45 THEN 1 ELSE 0)

CallRecords ==
    {c \in [parent_call_sid : {None, SidParent},
            status : {StrCompleted, StrCompletedCap, StrBusy, None},
            duration : {Dur45, None, DurMalformed},
            from_ : Addrs, to : Addrs,
            direction : CallDirections] :
        /\ Deviations(c) <= 1
        /\ (c.from_ # c.to \/ c.from_ = None)}

FewCalls ==
    {[parent_call_sid |-> None, status |-> StrCompleted, duration |-> Dur45,
      from_ |-> AddrTracked, to |-> AddrUntracked, direction |-> StrOutboundDial],
     [parent_call_sid |-> None, status |-> StrCompleted, duration |-> None,
      from_ |-> AddrUntracked, to |-> AddrTrackedRaw, direction |-> StrInbound]}

MsgDirections == {StrInbound, StrOutboundApi, StrOutboundReplyCap, None}

BodyPlain == <<"H", "i", " ", "J", "o", "h", "n">>
\* text after the comma: exactly 30 characters once stripped, 34 before
BodyShort == <<"H", "i", ",", " ", " ">> \o Rep("x", MinTemplateLen) \o <<" ", " ">>
\* text after the first comma: 31 characters once stripped, a comma inside
TemplateTail == Rep("y", MinTemplateLen \div 2) \o <<",">> \o Rep("z", MinTemplateLen \div 2)
BodyCampaignA == <<"H", "i", " ", "A", ",", " ">> \o TemplateTail \o <<" ">>
BodyCampaignB == <<"H", "i", " ", "B", ",">> \o TemplateTail
Bodies == {BodyPlain, BodyShort, BodyCampaignA, BodyCampaignB, None, <<>>}

\* The address pairs of a message: tracked or not, present or absent.
MsgPairs ==
    {<<AddrTracked, AddrUntracked>>, <<AddrUntracked, AddrTrackedRaw>>,
     <<AddrTracked, AddrTrackedRaw>>, <<None, AddrTrackedRaw>>,
     <<AddrUntracked, None>>, <<None, None>>}

\* Every direction and address pair with a plain body; every body between two
\* tracked numbers, in each direction that is present.
MessageRecords ==
    {m \in [direction : MsgDirections, from_ : Addrs, to : Addrs, body : Bodies] :
        \/ m.body = BodyPlain /\ <<m.from_, m.to>> \in MsgPairs
        \/ <<m.from_, m.to>> = <<AddrTracked, AddrTrackedRaw>> /\ m.direction # None}

FewMessages ==
    {[direction |-> StrOutboundApi, from_ |-> AddrTracked, to |-> AddrUntracked,
      body |-> BodyPlain],
     [direction |-> StrInbound, from_ |-> AddrUntracked, to |-> AddrTrackedRaw,
      body |-> BodyPlain]}

\* The call loop over every kind of call, a few messages behind it.
NextCalls ==
    \/ \E c \in CallRecords : ProcessCall(c)
    \/ EndCalls
    \/ \E m \in FewMessages : ProcessMessage(m)
    \/ BuildRows

SpecCalls == InitReport /\ [][NextCalls]_vars

\* The message loop over every kind of message, a few calls before it.
NextMsgs ==
    \/ \E c \in FewCalls : ProcessCall(c)
    \/ EndCalls
    \/ \E m \in MessageRecords : ProcessMessage(m)
    \/ BuildRows

SpecMsgs == InitReport /\ [][NextMsgs]_vars

-----------------------------------------------------------------------------
(* The Streamlit script (lines 262-326): one action per run of the script *)

MaxTicks == 3

\* The configured credentials and what a visitor may type.
USERNAME == "app-user"
PASSWORD == "app-pass"
Typed == {"", "app-user", "app-pass"}

IstOffset == 330
DayMinutes == 1440
FivePm == 1020

\* The clock, in whole minutes; the samples fall on both sides of 17:00 IST.
Clock == {k * 345 : k \in 0..MaxTicks}

TimeframeButtons == {"yesterday", "today", "last7", "last30"}
PeriodButtons == {"week", "month", "year"}

\* now_ist.replace(hour=17, minute=0, ...) as UTC minutes
FivePmToday(t) ==
    LET local == t + IstOffset
    IN  (local - (local % DayMinutes)) + FivePm - IstOffset

\* The window a timeframe button stores: <<start_utc, end_utc>>.
Window(button, t) ==
    CASE button = "yesterday" ->
            <<FivePmToday(t) - DayMinutes, FivePmToday(t) - DayMinutes + 12 * 60>>
      [] button = "today" ->
            <<IF (t + IstOffset) % DayMinutes < FivePm
              THEN FivePmToday(t) - DayMinutes ELSE FivePmToday(t), t>>
      [] button = "last7" -> <<t - 7 * DayMinutes, t>>
      [] button = "last30" -> <<t - 30 * DayMinutes, t>>

\* A variant with "or" where the code has "and".
CredentialsOk_or(username, password) == username = USERNAME \/ password = PASSWORD

\* username == USERNAME and password == PASSWORD
CredentialsOk(username, password) == username = USERNAME /\ password = PASSWORD

\* The buttons the last run of the script left on the page.
Rendered ==
    IF rerun THEN {}
    ELSE IF ~logged_in THEN {"login"}
    ELSE {"nav_activity", "nav_billing"}
            \cup (IF view = "billing" THEN PeriodButtons ELSE TimeframeButtons)

\* Lines 264-274: the run of a visitor who is not logged in.
LoginRun(click, typed) ==
    /\ ~logged_in
    /\ creds' = typed
    /\ IF click = "login" /\ CredentialsOk(typed[1], typed[2])
       THEN logged_in' = TRUE /\ rerun' = TRUE
       ELSE logged_in' = FALSE /\ rerun' = FALSE
    /\ ran' = "none"
    /\ UNCHANGED <<view, start_utc, end_utc, billing_period>>

\* Lines 293-324: the activity view.
ActivityRun(click, t) ==
    LET start0 == IF start_utc = Absent THEN NoTime ELSE start_utc
        end0 == IF end_utc = Absent THEN NoTime ELSE end_utc
    IN  IF click \in TimeframeButtons
        THEN /\ start_utc' = Time(Window(click, t)[1])
             /\ end_utc' = Time(Window(click, t)[2])
             /\ rerun' = TRUE
             /\ ran' = "none"
        ELSE /\ start_utc' = start0
             /\ end_utc' = end0
             /\ rerun' = FALSE
             /\ ran' = IF start0 # NoTime /\ end0 # NoTime THEN "activity" ELSE "none"

\* Lines 93-153: the billing view.
BillingRun(click) ==
    LET period0 == IF billing_period = "unset" THEN "week" ELSE billing_period
    IN  IF click \in PeriodButtons
        THEN billing_period' = click /\ rerun' = TRUE /\ ran' = "none"
        ELSE billing_period' = period0 /\ rerun' = FALSE /\ ran' = "billing"

\* Lines 276-326: the run of a logged-in visitor.
MainRun(click, t) ==
    /\ logged_in
    /\ UNCHANGED <<logged_in, creds>>
    /\ LET view0 == IF view = "unset" THEN "activity" ELSE view
       IN  IF click = "nav_activity"
           THEN /\ view' = "activity"
                /\ start_utc' = NoTime /\ end_utc' = NoTime
                /\ rerun' = TRUE /\ ran' = "none"
                /\ UNCHANGED billing_period
           ELSE IF click = "nav_billing"
           THEN /\ view' = "billing"
                /\ rerun' = TRUE /\ ran' = "none"
                /\ UNCHANGED <<start_utc, end_utc, billing_period>>
           ELSE IF view0 = "activity"
           THEN /\ view' = view0
                /\ ActivityRun(click, t)
                /\ UNCHANGED billing_period
           ELSE /\ view' = view0
                /\ BillingRun(click)
                /\ UNCHANGED <<start_utc, end_utc>>

\* What every run of the script starts with: it is caused by a button on the
\* page, by another widget (no button pressed) or by st.rerun(), and it reads
\* the clock.
BeginRun(click, t) ==
    /\ pc = "ui"
    /\ click \in Rendered \cup {"none"}
    /\ t >= now
    /\ now' = t
    /\ clicked' = click
    /\ UNCHANGED <<pc, normVars, reportVars>>

Buttons == {"none", "login", "nav_activity", "nav_billing"}
              \cup TimeframeButtons \cup PeriodButtons

InitUI ==
    /\ pc = "ui"
    /\ val = None /\ res = Unset /\ res2 = Unset
    /\ InitOther

NextUI ==
    \/ \E click \in Buttons, typed \in Typed \X Typed, t \in Clock :
          BeginRun(click, t) /\ LoginRun(click, typed)
    \/ \E click \in Buttons, t \in Clock :
          BeginRun(click, t) /\ MainRun(click, t)

SpecUI == InitUI /\ [][NextUI]_vars

-----------------------------------------------------------------------------
(* Properties *)

\* The accumulator of num, or the default (all zero) when it has none.
Get(rd, num) == IF num \in Keys(rd) THEN rd[IndexOf(rd, num)] ELSE NewStats(num)

\* The step took a call (a message) from its list.
CallStep == ncalls' = ncalls + 1
MsgStep == nmsgs' = nmsgs + 1

\* A call the report counts: a top-level call whose status is "completed",
\* whatever the case of the letters.
EligibleCall(c) ==
    c.parent_call_sid = None /\ Lower(OrEmpty(c.status)) = StrCompleted

DirectionHas(c, word) == c.direction # None /\ Contains(Lower(c.direction), word)

\* C5: normalize_number(normalize_number(s)) = normalize_number(s) for every
\* string s, the inputs handled by the whitespace-stripping fallback included.
C5_Idempotent == pc = "renormalized" => res2 = res

\* C1: for an eligible call with a direction, the direction decides the
\* owner: an outbound call counts as outbound for the "from" owner, an inbound
\* call counts as inbound for the "to" owner and changes nothing of the "from"
\* owner.
C1_DirectionDecidesOwner ==
    [][(CallStep /\ pc' # "crashed" /\ EligibleCall(call')) =>
        LET c == call'
            from_num == normalize_number(c.from_)
            to_num == normalize_number(c.to)
        IN  /\ (DirectionHas(c, StrOutbound) /\ from_num \in NORMALIZED_NAME_MAP) =>
                  Get(report_data', from_num).outbound_calls
                      = Get(report_data, from_num).outbound_calls + 1
            /\ (DirectionHas(c, StrInbound) /\ to_num \in NORMALIZED_NAME_MAP) =>
                  /\ Get(report_data', to_num).inbound_calls
                        = Get(report_data, to_num).inbound_calls + 1
                  /\ from_num # to_num =>
                        Get(report_data', from_num) = Get(report_data, from_num)
      ]_vars

\* C3: one call raises at most one of inbound_calls and outbound_calls, by
\* exactly 1, for at most one owner, and changes nothing else than the matching
\* duration of that owner; a child leg or a call that is not completed changes
\* no accumulator and no key.
C3_CallExclusive ==
    [][CallStep =>
        LET changed == {n \in Keys(report_data') :
                            Get(report_data', n) # Get(report_data, n)}
        IN  /\ ~EligibleCall(call') => report_data' = report_data
            /\ Cardinality(changed) <= 1
            /\ Keys(report_data) \subseteq Keys(report_data')
            /\ Keys(report_data') \ Keys(report_data) \subseteq changed
            /\ \A n \in changed :
                  LET a == Get(report_data, n)
                      b == Get(report_data', n)
                  IN  \/ b = [a EXCEPT !.inbound_calls = @ + 1,
                                       !.inbound_duration = b.inbound_duration]
                      \/ b = [a EXCEPT !.outbound_calls = @ + 1,
                                       !.outbound_duration = b.outbound_duration]
      ]_vars

\* C3 witness: an eligible call between two tracked numbers was taken and
\* exactly one accumulator exists, with one call counted.
C3_Witness ==
    /\ pc = "calls" /\ ncalls = 1
    /\ EligibleCall(call)
    /\ normalize_number(call.from_) \in NORMALIZED_NAME_MAP
    /\ normalize_number(call.to) \in NORMALIZED_NAME_MAP
    /\ normalize_number(call.from_) # normalize_number(call.to)
    /\ Len(report_data) = 1
    /\ report_data[1].inbound_calls + report_data[1].outbound_calls = 1
    /\ report_data[1].inbound_duration + report_data[1].outbound_duration = 45

\* The address the direction rule resolves for a call: "from" for outbound,
\* "to" for inbound.
ResolvedCallOwner(c) ==
    IF DirectionHas(c, StrOutbound) THEN normalize_number(c.from_)
    ELSE IF DirectionHas(c, StrInbound) THEN normalize_number(c.to)
    ELSE None

\* C4: a call or message whose resolved owner normalizes to a key that is not
\* in the directory creates no accumulator and changes none.
C4_UntrackedExclusion ==
    [][/\ (CallStep /\ EligibleCall(call')
              /\ ResolvedCallOwner(call') # None
              /\ ResolvedCallOwner(call') \notin NORMALIZED_NAME_MAP)
          => report_data' = report_data
       /\ (MsgStep
              /\ normalize_number(our_number_from_message(msg')) # None
              /\ normalize_number(our_number_from_message(msg')) \notin NORMALIZED_NAME_MAP)
          => report_data' = report_data
      ]_vars

\* C6: a call with a malformed duration never raises; the run goes on.
C6_MalformedDurationIsZero ==
    (ncalls > 0 /\ ~Falsy(call.duration) /\ PyInt(call.duration).raised)
        => pc # "crashed"

\* The sum of the counts of a campaigns map.
RECURSIVE SumCounts(_)
SumCounts(campaigns) ==
    IF DOMAIN campaigns = {} THEN 0
    ELSE LET t == CHOOSE x \in DOMAIN campaigns : TRUE
         IN  campaigns[t] + SumCounts([x \in (DOMAIN campaigns) \ {t} |-> campaigns[x]])

Balanced(stats) == stats.sms = SumCounts(stats.campaigns) + Len(stats.other_sms)

\* C2: at every boundary of the message loop each accumulator has
\* sms = (sum of its campaign counts) + len(other_sms), and a message step
\* that raises an owner's sms raises it by exactly 1 and adds 1 to exactly one
\* of the two: the campaign counts or the other_sms list.
C2_Conservation ==
    /\ [](\A i \in 1..Len(report_data) : Balanced(report_data[i]))
    /\ [][MsgStep =>
            \A n \in Keys(report_data') :
                LET a == Get(report_data, n)
                    b == Get(report_data', n)
                    dc == SumCounts(b.campaigns) - SumCounts(a.campaigns)
                    dl == Len(b.other_sms) - Len(a.other_sms)
                IN  \/ b = a
                    \/ /\ b.sms = a.sms + 1
                       /\ <<dc, dl>> \in {<<1, 0>>, <<0, 1>>}
         ]_vars

\* C2 witness: an owner with two messages, one under a campaign template and
\* one in other_sms.
C2_Witness ==
    \E i \in 1..Len(report_data) :
        /\ report_data[i].sms = 2
        /\ SumCounts(report_data[i].campaigns) = 1
        /\ Len(report_data[i].other_sms) = 1

\* Twilio's names of the directions of a message.
OutboundNames ==
    {StrOutbound, StrOutboundApi,
     <<"o", "u", "t", "b", "o", "u", "n", "d", "-", "c", "a", "l", "l">>,
     <<"o", "u", "t", "b", "o", "u", "n", "d", "-", "r", "e", "p", "l", "y">>}

IsOutboundMsg(m) == Lower(OrEmpty(m.direction)) \in OutboundNames
IsInboundMsg(m) == Lower(OrEmpty(m.direction)) = StrInbound

\* "our" address of a message as the claim states it.
OurAddress(m) ==
    IF IsOutboundMsg(m) THEN m.from_
    ELSE IF IsInboundMsg(m) THEN m.to
    ELSE IF ~Falsy(m.from_) THEN m.from_ ELSE m.to

\* C7: a message goes to exactly the accumulator keyed by the normalized
\* "our" address ("from" when outbound, "to" when inbound, else "from" if
\* there is one, else "to"), only if that key is in the directory, and to no
\* other accumulator whoever the counterparty is.
C7_MessageOwner ==
    [][MsgStep =>
        \A m \in {msg'} : \A key \in {normalize_number(OurAddress(m))} :
            IF key \in NORMALIZED_NAME_MAP
            THEN /\ Get(report_data', key).sms = Get(report_data, key).sms + 1
                 /\ \A n \in (Keys(report_data') \cup Keys(report_data)) \ {key} :
                        /\ n \in Keys(report_data)
                        /\ Get(report_data', n) = Get(report_data, n)
            ELSE report_data' = report_data
      ]_vars

\* C7 witness: an inbound message between two tracked numbers was taken as the
\* first record and only the "to" number has an accumulator.
C7_Witness ==
    /\ ncalls = 0 /\ nmsgs = 1
    /\ msg.direction = StrInbound
    /\ msg.from_ = AddrTracked /\ msg.to = AddrTrackedRaw
    /\ Keys(report_data) = {NumSwapnilB}
    /\ report_data[1].sms = 1

\* The text after the first comma of a body, stripped; None without a comma.
AfterFirstComma(body) ==
    IF Falsy(body) \/ ~\E i \in 1..Len(body) : body[i] = StrComma THEN None
    ELSE LET i == CHOOSE j \in 1..Len(body) :
                    body[j] = StrComma /\ \A k \in 1..(j - 1) : body[k] # StrComma
         IN  Strip(SubSeq(body, i + 1, Len(body)))

\* C8: an attributed message raises a campaign counter iff it is outbound and
\* the stripped text after the first comma of its body is longer than 30
\* characters; the key is exactly that text.  Every other attributed message
\* is appended to other_sms.
C8_CampaignIff ==
    [][MsgStep =>
        \A m \in {msg'} : \A t \in {AfterFirstComma(m.body)} :
        \A n \in Keys(report_data') :
            LET a == Get(report_data, n)
                b == Get(report_data', n)
                campaign == /\ IsOutboundMsg(m)
                            /\ t # None
                            /\ Len(t) > MinTemplateLen
            IN  b.sms = a.sms + 1 =>
                    IF campaign
                    THEN /\ t \in DOMAIN b.campaigns
                         /\ b.campaigns[t] =
                               (IF t \in DOMAIN a.campaigns THEN a.campaigns[t] ELSE 0) + 1
                         /\ \A x \in (DOMAIN b.campaigns) \ {t} :
                               x \in DOMAIN a.campaigns /\ b.campaigns[x] = a.campaigns[x]
                         /\ b.other_sms = a.other_sms
                    ELSE /\ b.campaigns = a.campaigns
                         /\ Len(b.other_sms) = Len(a.other_sms) + 1
                         /\ SubSeq(b.other_sms, 1, Len(a.other_sms)) = a.other_sms
                         /\ b.other_sms[Len(b.other_sms)].body = m.body
      ]_vars

\* C8 witness: of two outbound messages of one owner, one was counted under
\* a template that has a comma of its own, and the one whose text after the
\* comma has exactly 30 characters went to other_sms.
C8_Witness ==
    \E i \in 1..Len(report_data) :
        /\ report_data[i].sms = 2
        /\ TemplateTail \in DOMAIN report_data[i].campaigns
        /\ report_data[i].campaigns[TemplateTail] = 1
        /\ Len(report_data[i].other_sms) = 1
        /\ report_data[i].other_sms[1].direction = "outbound"
        /\ report_data[i].other_sms[1].body = BodyShort

\* The place of num in the insertion order of the accumulators.
RowIndex(rs, num) == CHOOSE i \in 1..Len(rs) : rs[i].Number = num

\* C9: the rows are in descending order of Total Activity, rows of equal
\* Total Activity are in the insertion order of their accumulators, there is
\* exactly one row per accumulator and every Total Activity is at least 1.
C9_RowsSorted ==
    pc = "done" =>
        /\ Len(rows) = Len(report_data)
        /\ \A n \in Keys(report_data) :
              /\ Cardinality({i \in 1..Len(rows) : rows[i].Number = n}) = 1
              /\ LET st == Get(report_data, n)
                 IN  rows[RowIndex(rows, n)].TotalActivity
                        = st.inbound_calls + st.outbound_calls + st.sms
        /\ \A i \in 1..Len(rows) : rows[i].TotalActivity >= 1
        /\ \A i, j \in 1..Len(rows) :
              i < j =>
                 /\ rows[i].TotalActivity >= rows[j].TotalActivity
                 /\ rows[i].TotalActivity = rows[j].TotalActivity =>
                       IndexOf(report_data, rows[i].Number)
                          < IndexOf(report_data, rows[j].Number)

\* C9 witness: the owner inserted second was busier and its row came first.
C9_Witness ==
    /\ pc = "done"
    /\ Len(rows) = 2
    /\ rows[1].Number = report_data[2].num
    /\ rows[1].TotalActivity > rows[2].TotalActivity

\* C10: no report runs in a script run that starts without logged_in;
\* logged_in becomes true only by a Login click with the configured username
\* and password, and is never reset; the navigation button to the activity
\* view clears start_utc and end_utc, only a timeframe button sets them, and
\* run_report is invoked only in a run that finds both set.
C10_LoginGate ==
    [][/\ ran' # "none" => logged_in
       /\ logged_in => logged_in'
       /\ (~logged_in /\ logged_in') =>
             (clicked' = "login" /\ creds' = <<USERNAME, PASSWORD>>)
       /\ clicked' = "nav_activity" =>
             (start_utc' = NoTime /\ end_utc' = NoTime /\ ran' # "activity")
       /\ ran' = "activity" =>
             /\ start_utc.kind = "time" /\ end_utc.kind = "time"
             /\ start_utc' = start_utc /\ end_utc' = end_utc
       /\ (start_utc' # start_utc /\ start_utc'.kind = "time") =>
             (clicked' \in TimeframeButtons /\ end_utc'.kind = "time")
       /\ (end_utc' # end_utc /\ end_utc'.kind = "time") =>
             (clicked' \in TimeframeButtons /\ start_utc'.kind = "time")
      ]_vars

\* C10 witness: the visitor logged in, went to the billing view, came back by
\* the navigation button, chose a timeframe, and the activity report ran.
C10_Witness ==
    /\ logged_in /\ creds = <<USERNAME, PASSWORD>>
    /\ view = "activity" /\ billing_period # "unset"
    /\ start_utc.kind = "time" /\ end_utc.kind = "time"
    /\ ran = "activity"

====
